---------------------------- MODULE Spec2Model ----------------------------
(***************************************************************************)
(* A model of multi_tool_agent/agent.py: the two tool functions            *)
(* get_weather and get_current_time, their callers, the system clock and   *)
(* the timezone database they read.                                        *)
(*                                                                         *)
(* A Python str is a sequence of characters; a character is a one-letter   *)
(* TLA+ string ("KELVIN" stands for U+212A, the one non-ASCII character    *)
(* whose lower-case form is an ASCII letter of "new york").  A dict is a   *)
(* function from its keys to its values.                                   *)
(***************************************************************************)
EXTENDS Integers, Sequences, FiniteSets, TLC

\* ------------------------------------------------------------------ bounds
\* Longest arbitrary city string over SmallAlphabet that a caller passes.
MaxLen == 2
\* Most upper-case letters in a spelling of "new york" passed to
\* get_current_time (get_weather is given every one of the 128 spellings).
MaxCaps == 2
\* Seconds on either side of each anchor instant that the clock can show.
Window == 1
\* Concurrent callers in SpecConc.
NumCallers == 2

\* ------------------------------------------------------------------ strings
UpperLetters ==
    <<"A", "B", "C", "D", "E", "F", "G", "H", "I", "J", "K", "L", "M",
      "N", "O", "P", "Q", "R", "S", "T", "U", "V", "W", "X", "Y", "Z">>

LowerLetters ==
    <<"a", "b", "c", "d", "e", "f", "g", "h", "i", "j", "k", "l", "m",
      "n", "o", "p", "q", "r", "s", "t", "u", "v", "w", "x", "y", "z">>

\* str.lower() on one character.
LowerChar(ch) ==
    IF \E i \in 1..26 : UpperLetters[i] = ch
    THEN LowerLetters[CHOOSE i \in 1..26 : UpperLetters[i] = ch]
    ELSE IF ch = "KELVIN" THEN "k" ELSE ch

\* str.upper() on one character (used to enumerate spellings).
UpperChar(ch) ==
    IF \E i \in 1..26 : LowerLetters[i] = ch
    THEN UpperLetters[CHOOSE i \in 1..26 : LowerLetters[i] = ch]
    ELSE ch

\* city.lower()
Lower(s) == [i \in 1..Len(s) |-> LowerChar(s[i])]

\* needle in hay (Python's substring test)
Contains(hay, needle) ==
    \E i \in 0..(Len(hay) - Len(needle)) :
        SubSeq(hay, i + 1, i + Len(needle)) = needle

NewYorkKey ==
    <<"n", "e", "w", " ", "y", "o", "r", "k">>

WeatherReport ==
    <<"T", "h", "e", " ", "w", "e", "a", "t", "h", "e", "r", " ", "i", "n",
      " ", "N", "e", "w", " ", "Y", "o", "r", "k", " ", "i", "s", " ", "s",
      "u", "n", "n", "y", " ", "w", "i", "t", "h", " ", "a", " ", "t", "e",
      "m", "p", "e", "r", "a", "t", "u", "r", "e", " ", "o", "f", " ", "2",
      "5", " ", "d", "e", "g", "r", "e", "e", "s", " ", "C", "e", "l", "s",
      "i", "u", "s", " ", "(", "7", "7", " ", "d", "e", "g", "r", "e", "e",
      "s", " ", "F", "a", "h", "r", "e", "n", "h", "e", "i", "t", ")", ".">>

WeatherErrorHead ==
    <<"W", "e", "a", "t", "h", "e", "r", " ", "i", "n", "f", "o", "r", "m",
      "a", "t", "i", "o", "n", " ", "f", "o", "r", " ", "'">>

WeatherErrorTail ==
    <<"'", " ", "i", "s", " ", "n", "o", "t", " ", "a", "v", "a", "i", "l",
      "a", "b", "l", "e", ".">>

TimeErrorHead ==
    <<"S", "o", "r", "r", "y", ",", " ", "I", " ", "d", "o", "n", "'", "t",
      " ", "h", "a", "v", "e", " ", "t", "i", "m", "e", "z", "o", "n", "e",
      " ", "i", "n", "f", "o", "r", "m", "a", "t", "i", "o", "n", " ", "f",
      "o", "r", " ">>

TimeReportHead ==
    <<"T", "h", "e", " ", "c", "u", "r", "r", "e", "n", "t", " ", "t", "i",
      "m", "e", " ", "i", "n", " ">>

IsWord ==
    <<" ", "i", "s", " ">>

TzIdentifier == "America/New_York"

\* ------------------------------------------------------------------ inputs
Sunny ==
    <<"s", "u", "n", "n", "y">>

Beijing ==
    <<"B", "e", "i", "j", "i", "n", "g">>

Tokyo ==
    <<"T", "o", "k", "y", "o">>

ItIsSunny ==
    <<"I", "t", " ", "i", "s", " ", "s", "u", "n", "n", "y">>

NewYorkCity ==
    <<"N", "e", "w", " ", "Y", "o", "r", "k", " ", "C", "i", "t", "y">>

\* NewYorkKey with the letters at the positions in caps in upper case.
Spelling(caps) ==
    [i \in 1..Len(NewYorkKey) |->
        IF i \in caps THEN UpperChar(NewYorkKey[i]) ELSE NewYorkKey[i]]

LetterPositions == {i \in 1..Len(NewYorkKey) : NewYorkKey[i] # " "}

AllSpellings ==
    {Spelling(caps) : caps \in SUBSET LetterPositions}
        \cup {[Spelling({1, 5}) EXCEPT ![8] = "KELVIN"]}

FewCapsSpellings ==
    {Spelling(caps) :
        caps \in {c \in SUBSET LetterPositions : Cardinality(c) <= MaxCaps}}
        \cup {Spelling({1, 5}), Spelling(LetterPositions),
              [Spelling({1, 5}) EXCEPT ![8] = "KELVIN"]}

SmallAlphabet == {"n", "Y", " ", "'"}

ShortStrings ==
    UNION {[1..n -> SmallAlphabet] : n \in 0..MaxLen}

OtherCities ==
    {Beijing, Tokyo, Sunny, ItIsSunny, NewYorkCity,
     <<" ">> \o NewYorkKey, NewYorkKey \o <<" ">>,
     <<" ">> \o Spelling({1, 5}), Spelling({1, 5}) \o <<" ">>,
     SubSeq(NewYorkKey, 1, 3) \o SubSeq(NewYorkKey, 5, 8),
     SubSeq(NewYorkKey, 1, 4) \o <<" ">> \o SubSeq(NewYorkKey, 5, 8)}
        \cup ShortStrings

WeatherCities == AllSpellings \cup OtherCities
TimeCities == FewCapsSpellings \cup OtherCities

\* ------------------------------------------------------------ get_weather
\* A get_weather that compares without lower-casing.
weather_matches_exact(city) == city = NewYorkKey

weather_matches(city) == Lower(city) = NewYorkKey

\* A get_weather that quotes the lower-cased city in its message.
get_weather_lowered(city) ==
    IF weather_matches(city)
    THEN [status |-> "success", report |-> WeatherReport]
    ELSE [status |-> "error",
          error_message |->
              WeatherErrorHead \o Lower(city) \o WeatherErrorTail]

\* A get_weather whose error message is the success report.
get_weather_always_report(city) ==
    IF weather_matches(city)
    THEN [status |-> "success", report |-> WeatherReport]
    ELSE [status |-> "error", error_message |-> WeatherReport]

get_weather(city) ==
    IF weather_matches(city)
    THEN [status |-> "success", report |-> WeatherReport]
    ELSE [status |-> "error",
          error_message |-> WeatherErrorHead \o city \o WeatherErrorTail]

\* ------------------------------------------------------- get_current_time
RECURSIVE Strip(_)
\* str.strip() for spaces.
Strip(s) ==
    IF s # <<>> /\ Head(s) = " " THEN Strip(Tail(s))
    ELSE IF s # <<>> /\ s[Len(s)] = " " THEN Strip(SubSeq(s, 1, Len(s) - 1))
    ELSE s

\* A get_current_time that trims the city before comparing.
time_matches_stripped(city) == Lower(Strip(city)) = NewYorkKey

time_matches(city) == Lower(city) = NewYorkKey

\* An error dict that also carries a report.
time_error_both(city) ==
    [status |-> "error",
     error_message |-> TimeErrorHead \o city \o <<".">>,
     report |-> <<>>]

time_error(city) ==
    [status |-> "error",
     error_message |-> TimeErrorHead \o city \o <<".">>]

\* The proleptic Gregorian calendar of datetime: the day number (days since
\* 1970-01-01) of a civil date, and the civil date of a day number.
DaysFromCivil(y, m, d) ==
    LET yy == IF m <= 2 THEN y - 1 ELSE y
        era == yy \div 400
        yoe == yy - era * 400
        mp == IF m > 2 THEN m - 3 ELSE m + 9
        doy == (153 * mp + 2) \div 5 + d - 1
        doe == yoe * 365 + yoe \div 4 - yoe \div 100 + doy
    IN  era * 146097 + doe - 719468

CivilFromDays(z) ==
    LET zz == z + 719468
        era == zz \div 146097
        doe == zz - era * 146097
        yoe == (doe - doe \div 1460 + doe \div 36524 - doe \div 146096) \div 365
        doy == doe - (365 * yoe + yoe \div 4 - yoe \div 100)
        mp == (5 * doy + 2) \div 153
        d == doy - (153 * mp + 2) \div 5 + 1
        m == IF mp < 10 THEN mp + 3 ELSE mp - 9
        y == yoe + era * 400
    IN  [year |-> IF m <= 2 THEN y + 1 ELSE y, month |-> m, day |-> d]

\* 0 = Sunday; 1970-01-01 was a Thursday.
Weekday(days) == (days + 4) % 7

FirstSundayOnOrAfter(days) == days + ((7 - Weekday(days)) % 7)

\* The America/New_York entry of the timezone database (the rule in force
\* since 2007): daylight saving from the second Sunday of March, 02:00 EST
\* (07:00 UTC), to the first Sunday of November, 02:00 EDT (06:00 UTC).
dst_start(y) == FirstSundayOnOrAfter(DaysFromCivil(y, 3, 8)) * 86400 + 7 * 3600

dst_end(y) == FirstSundayOnOrAfter(DaysFromCivil(y, 11, 1)) * 86400 + 6 * 3600

is_dst(t) ==
    LET y == CivilFromDays(t \div 86400).year
    IN  dst_start(y) <= t /\ t < dst_end(y)

\* A fixed offset in place of the database's rule.
utcoffset_fixed(t) == -(5 * 3600)

\* tz.utcoffset at instant t, in seconds.
utcoffset(t) == IF is_dst(t) THEN -(4 * 3600) ELSE -(5 * 3600)

\* tz.tzname at instant t.
tzname(t) == IF is_dst(t) THEN <<"E", "D", "T">> ELSE <<"E", "S", "T">>

\* datetime.datetime.now(tz) when the system clock shows t: the aware
\* datetime's civil fields in the zone.
now_in_tz(t) ==
    LET l == t + utcoffset(t)
        c == CivilFromDays(l \div 86400)
        s == l % 86400
    IN  [year |-> c.year, month |-> c.month, day |-> c.day,
         hour |-> s \div 3600, minute |-> (s % 3600) \div 60,
         second |-> s % 60, tzname |-> tzname(t), utcoffset |-> utcoffset(t)]

DigitChars == <<"0", "1", "2", "3", "4", "5", "6", "7", "8", "9">>

RECURSIVE Pad(_, _)
\* n in decimal, zero-padded to w digits (%Y, %m, %d, %H, %M, %S).
Pad(n, w) ==
    IF w = 0 THEN <<>>
    ELSE Pad(n \div 10, w - 1) \o <<DigitChars[(n % 10) + 1]>>

\* %z : the signed offset as +HHMM or -HHMM.
format_z(off) ==
    LET a == IF off < 0 THEN -off ELSE off
    IN  <<IF off < 0 THEN "-" ELSE "+">>
            \o Pad(a \div 3600, 2) \o Pad((a % 3600) \div 60, 2)

\* now.strftime("%Y-%d-%m %H:%M:%S %Z%z"): day and month exchanged.
strftime_day_month(dt) ==
    Pad(dt.year, 4) \o <<"-">> \o Pad(dt.day, 2) \o <<"-">>
        \o Pad(dt.month, 2) \o <<" ">> \o Pad(dt.hour, 2) \o <<":">>
        \o Pad(dt.minute, 2) \o <<":">> \o Pad(dt.second, 2) \o <<" ">>
        \o dt.tzname \o format_z(dt.utcoffset)

\* now.strftime("%Y-%m-%d %H:%M:%S %Z%z")
strftime(dt) ==
    Pad(dt.year, 4) \o <<"-">> \o Pad(dt.month, 2) \o <<"-">>
        \o Pad(dt.day, 2) \o <<" ">> \o Pad(dt.hour, 2) \o <<":">>
        \o Pad(dt.minute, 2) \o <<":">> \o Pad(dt.second, 2) \o <<" ">>
        \o dt.tzname \o format_z(dt.utcoffset)

time_report(city, dt) ==
    [status |-> "success",
     report |-> TimeReportHead \o city \o IsWord \o strftime(dt)]

\* ------------------------------------------------------------------- state
\* The instants the system clock can show: a window around each anchor
\* (seconds since 1970-01-01T00:00:00Z).  The anchors are the 2023 and 2024
\* daylight-saving transitions of America/New_York, the docstring's example
\* (2023-04-01 14:30:45 EDT), a summer noon, the turn of the year 2024 and
\* the two ends of 2024-02-29, all in New York civil time.
Anchors ==
    {1678604400, 1699164000, 1710054000, 1730613600,
     1680373845, 1688486400, 1704085200, 1709182800, 1709269200}

Instants == UNION {(a - Window)..(a + Window) : a \in Anchors}

\* The second before and the second of the 2023 return to standard time.
ConcInstants == {1699163999, 1699164000}

ConcCities == {Spelling({1, 5}), Spelling(LetterPositions), Beijing}

TwoCallCities == {Spelling({1, 5}), Tokyo}

Callers == 1..NumCallers

VARIABLES
    clock,          \* the system clock, an instant
    tzAvailable,    \* whether the runtime has the America/New_York entry
    pc,             \* pc[p]: where caller p's call stands
    req,            \* req[p]: the call caller p made (function and argument)
    city,           \* city[f]: the parameter `city` of activation f
    tz_identifier,  \* tz_identifier[f]: that local of get_current_time
    now,            \* now[f]: that local of get_current_time
    ret,            \* ret[p]: the dict returned to caller p
    readAt,         \* readAt[p]: the instant at which p's call read the clock
    reads,          \* reads[p]: what of the environment p's call consulted
    prev            \* the last successful get_current_time call, once consumed

vars ==
    <<clock, tzAvailable, pc, req, city, tz_identifier, now, ret, readAt,
      reads, prev>>

NoRequest == [fn |-> "none", city |-> <<>>]

NoResult == [status |-> "none"]

NoDatetime ==
    [year |-> 0, month |-> 0, day |-> 0, hour |-> 0, minute |-> 0,
     second |-> 0, tzname |-> <<>>, utcoffset |-> 0]

NoPrev == [valid |-> FALSE, city |-> <<>>, at |-> 0, report |-> <<>>]

\* Module-level variables in place of locals: one activation for all.
SharedFrame(p) == 1

\* The activation (the locals) of caller p's call: each call has its own.
Frame(p) == p

InitOn(instants) ==
    /\ clock \in instants
    /\ tzAvailable \in BOOLEAN
    /\ pc = [p \in Callers |-> "idle"]
    /\ req = [p \in Callers |-> NoRequest]
    /\ city = [p \in Callers |-> <<>>]
    /\ tz_identifier = [p \in Callers |-> ""]
    /\ now = [p \in Callers |-> NoDatetime]
    /\ ret = [p \in Callers |-> NoResult]
    /\ readAt = [p \in Callers |-> 0]
    /\ reads = [p \in Callers |-> {}]
    /\ prev = NoPrev

\* ----------------------------------------------------------------- actions
\* The clock advances by a second.
Tick(instants) ==
    /\ clock + 1 \in instants
    /\ clock' = clock + 1
    /\ UNCHANGED <<tzAvailable, pc, req, city, tz_identifier, now, ret,
                   readAt, reads, prev>>

\* The wall clock is set (forward or backward): datetime.now reads the wall
\* clock, which is not monotonic.
ClockAdjust(instants) ==
    /\ clock' \in instants \ {clock}
    /\ UNCHANGED <<tzAvailable, pc, req, city, tz_identifier, now, ret,
                   readAt, reads, prev>>

\* Caller p calls get_weather(c).
CallWeather(p, c) ==
    /\ pc[p] = "idle"
    /\ req' = [req EXCEPT ![p] = [fn |-> "get_weather", city |-> c]]
    /\ city' = [city EXCEPT ![Frame(p)] = c]
    /\ pc' = [pc EXCEPT ![p] = "weather_28"]
    /\ UNCHANGED <<clock, tzAvailable, tz_identifier, now, ret, readAt,
                   reads, prev>>

\* The body of get_weather: the test and either return.
WeatherBody(p) ==
    /\ pc[p] = "weather_28"
    /\ ret' = [ret EXCEPT ![p] = get_weather(city[Frame(p)])]
    /\ pc' = [pc EXCEPT ![p] = "returned"]
    /\ UNCHANGED <<clock, tzAvailable, req, city, tz_identifier, now,
                   readAt, reads, prev>>

\* Caller p calls get_current_time(c).
CallTime(p, c) ==
    /\ pc[p] = "idle"
    /\ req' = [req EXCEPT ![p] = [fn |-> "get_current_time", city |-> c]]
    /\ city' = [city EXCEPT ![Frame(p)] = c]
    /\ pc' = [pc EXCEPT ![p] = "time_68"]
    /\ UNCHANGED <<clock, tzAvailable, tz_identifier, now, ret, readAt,
                   reads, prev>>

\* A get_current_time that builds the ZoneInfo before testing the city.
TimeCheckAfterLookup(p) ==
    /\ pc[p] = "time_68"
    /\ reads' = [reads EXCEPT ![p] = @ \cup {"tzdata"}]
    /\ IF ~tzAvailable
       THEN /\ pc' = [pc EXCEPT ![p] = "raised"]
            /\ UNCHANGED <<ret, tz_identifier>>
       ELSE IF time_matches(city[Frame(p)])
       THEN /\ tz_identifier' =
                   [tz_identifier EXCEPT ![Frame(p)] = TzIdentifier]
            /\ pc' = [pc EXCEPT ![p] = "time_81"]
            /\ ret' = ret
       ELSE /\ ret' = [ret EXCEPT ![p] = time_error(city[Frame(p)])]
            /\ pc' = [pc EXCEPT ![p] = "returned"]
            /\ tz_identifier' = tz_identifier
    /\ UNCHANGED <<clock, tzAvailable, req, city, now, readAt, prev>>

\* if city.lower() == "new york": ... else: return {error}
TimeCheck(p) ==
    /\ pc[p] = "time_68"
    /\ IF time_matches(city[Frame(p)])
       THEN /\ tz_identifier' =
                   [tz_identifier EXCEPT ![Frame(p)] = TzIdentifier]
            /\ pc' = [pc EXCEPT ![p] = "time_81"]
            /\ ret' = ret
       ELSE /\ ret' = [ret EXCEPT ![p] = time_error(city[Frame(p)])]
            /\ pc' = [pc EXCEPT ![p] = "returned"]
            /\ tz_identifier' = tz_identifier
    /\ UNCHANGED <<clock, tzAvailable, req, city, now, readAt, reads, prev>>

\* A lookup whose failure is caught and turned into an error dict.
ZoneInfoLookupCaught(p) ==
    /\ pc[p] = "time_81"
    /\ reads' = [reads EXCEPT ![p] = @ \cup {"tzdata"}]
    /\ IF tzAvailable
       THEN /\ pc' = [pc EXCEPT ![p] = "time_83"]
            /\ ret' = ret
       ELSE /\ pc' = [pc EXCEPT ![p] = "returned"]
            /\ ret' = [ret EXCEPT ![p] = time_error(city[Frame(p)])]
    /\ UNCHANGED <<clock, tzAvailable, req, city, tz_identifier, now,
                   readAt, prev>>

\* tz = ZoneInfo(tz_identifier): raises ZoneInfoNotFoundError, which nothing
\* in the function catches, when the runtime lacks the entry.
ZoneInfoLookup(p) ==
    /\ pc[p] = "time_81"
    /\ reads' = [reads EXCEPT ![p] = @ \cup {"tzdata"}]
    /\ pc' = [pc EXCEPT ![p] = IF tzAvailable THEN "time_83" ELSE "raised"]
    /\ UNCHANGED <<clock, tzAvailable, req, city, tz_identifier, now, ret,
                   readAt, prev>>

\* now = datetime.datetime.now(tz)
ReadClock(p) ==
    /\ pc[p] = "time_83"
    /\ now' = [now EXCEPT ![Frame(p)] = now_in_tz(clock)]
    /\ readAt' = [readAt EXCEPT ![p] = clock]
    /\ reads' = [reads EXCEPT ![p] = @ \cup {"clock"}]
    /\ pc' = [pc EXCEPT ![p] = "time_85"]
    /\ UNCHANGED <<clock, tzAvailable, req, city, tz_identifier, ret, prev>>

\* report = f'The current time in {city} is {now.strftime(...)}' and the
\* return of the success dict.
FormatAndReturn(p) ==
    /\ pc[p] = "time_85"
    /\ ret' = [ret EXCEPT ![p] = time_report(city[Frame(p)], now[Frame(p)])]
    /\ pc' = [pc EXCEPT ![p] = "returned"]
    /\ UNCHANGED <<clock, tzAvailable, req, city, tz_identifier, now,
                   readAt, reads, prev>>

\* Caller p takes the result (or the propagated exception); the activation
\* is gone.  With track, a successful get_current_time call is remembered
\* as the previous call.
Finish(p, track) ==
    /\ pc[p] \in {"returned", "raised"}
    /\ prev' =
          IF track /\ req[p].fn = "get_current_time"
                /\ ret[p].status = "success"
          THEN [valid |-> TRUE, city |-> req[p].city, at |-> readAt[p],
                report |-> ret[p].report]
          ELSE prev
    /\ pc' = [pc EXCEPT ![p] = "idle"]
    /\ req' = [req EXCEPT ![p] = NoRequest]
    /\ city' = [city EXCEPT ![Frame(p)] = <<>>]
    /\ tz_identifier' = [tz_identifier EXCEPT ![Frame(p)] = ""]
    /\ now' = [now EXCEPT ![Frame(p)] = NoDatetime]
    /\ ret' = [ret EXCEPT ![p] = NoResult]
    /\ readAt' = [readAt EXCEPT ![p] = 0]
    /\ reads' = [reads EXCEPT ![p] = {}]
    /\ UNCHANGED <<clock, tzAvailable>>

\* ---------------------------------------------------------- specifications
\* One caller, every input, every instant.
Init == InitOn(Instants)

Next ==
    \/ Tick(Instants)
    \/ ClockAdjust(Instants)
    \/ \E c \in WeatherCities : CallWeather(1, c)
    \/ WeatherBody(1)
    \/ \E c \in TimeCities : CallTime(1, c)
    \/ TimeCheck(1)
    \/ ZoneInfoLookup(1)
    \/ ReadClock(1)
    \/ FormatAndReturn(1)
    \/ Finish(1, FALSE)

Spec == Init /\ [][Next]_vars

\* One caller calling get_current_time again and again, the previous
\* successful call remembered.
NextTwoCalls ==
    \/ Tick(Instants)
    \/ ClockAdjust(Instants)
    \/ \E c \in TwoCallCities : CallTime(1, c)
    \/ TimeCheck(1)
    \/ ZoneInfoLookup(1)
    \/ ReadClock(1)
    \/ FormatAndReturn(1)
    \/ Finish(1, TRUE)

SpecTwoCalls == Init /\ [][NextTwoCalls]_vars

\* Several callers, their calls interleaved step by step.
InitConc == InitOn(ConcInstants)

NextConc ==
    \/ Tick(ConcInstants)
    \/ ClockAdjust(ConcInstants)
    \/ \E p \in Callers :
          \/ \E c \in ConcCities : CallWeather(p, c)
          \/ WeatherBody(p)
          \/ \E c \in ConcCities : CallTime(p, c)
          \/ TimeCheck(p)
          \/ ZoneInfoLookup(p)
          \/ ReadClock(p)
          \/ FormatAndReturn(p)
          \/ Finish(p, FALSE)

SpecConc == InitConc /\ [][NextConc]_vars

\* ------------------------------------------------------------------ claims
Returned(p, fn) == pc[p] = "returned" /\ req[p].fn = fn

IsDigit(ch) == \E i \in 1..10 : DigitChars[i] = ch

DigitVal(ch) == (CHOOSE i \in 1..10 : DigitChars[i] = ch) - 1

RECURSIVE ParseNat(_)
ParseNat(ds) ==
    IF ds = <<>> THEN 0
    ELSE 10 * ParseNat(SubSeq(ds, 1, Len(ds) - 1)) + DigitVal(ds[Len(ds)])

\* "New York", the spelling of the docstrings.
NewYork == Spelling({1, 5})

\* The daylight-saving periods of America/New_York in 2023 and 2024, from
\* the published transition instants.
KnownDST(t) ==
    \/ 1678604400 <= t /\ t < 1699164000
    \/ 1710054000 <= t /\ t < 1730613600

\* The part of a time report after "The current time in <city> is ".
StampOf(report, c) == SubSeq(report, Len(c) + 25, Len(report))

\* YYYY-MM-DD HH:MM:SS ZZZ+HHMM, every field in range.
WellFormedStamp(T) ==
    /\ Len(T) = 28
    /\ \A i \in {1, 2, 3, 4, 6, 7, 9, 10, 12, 13, 15, 16, 18, 19,
                 25, 26, 27, 28} : IsDigit(T[i])
    /\ T[5] = "-" /\ T[8] = "-" /\ T[11] = " " /\ T[14] = ":"
    /\ T[17] = ":" /\ T[20] = " " /\ T[24] \in {"+", "-"}
    /\ ParseNat(SubSeq(T, 6, 7)) \in 1..12
    /\ ParseNat(SubSeq(T, 9, 10)) \in 1..31
    /\ ParseNat(SubSeq(T, 12, 13)) \in 0..23
    /\ ParseNat(SubSeq(T, 15, 16)) \in 0..59
    /\ ParseNat(SubSeq(T, 18, 19)) \in 0..59

\* The date-and-time fields of a stamp, most significant first.
StampFields(T) ==
    <<ParseNat(SubSeq(T, 1, 4)), ParseNat(SubSeq(T, 6, 7)),
      ParseNat(SubSeq(T, 9, 10)), ParseNat(SubSeq(T, 12, 13)),
      ParseNat(SubSeq(T, 15, 16)), ParseNat(SubSeq(T, 18, 19))>>

\* The civil time of a stamp as seconds since 1970-01-01 00:00:00 civil.
StampCivilSeconds(T) ==
    LET f == StampFields(T)
    IN  DaysFromCivil(f[1], f[2], f[3]) * 86400
            + f[4] * 3600 + f[5] * 60 + f[6]

\* a is not earlier than b, field by field.
NotEarlier(a, b) ==
    \/ a = b
    \/ \E i \in 1..6 :
          /\ a[i] > b[i]
          /\ \A j \in 1..(i - 1) : a[j] = b[j]

\* C1 (as stated): for every c with c.lower() = "new york", get_weather(c)
\* is the success dict whose report is the literal sentence, the same for
\* all such c, and the report never contains the caller's spelling.
C1_Original ==
    (Returned(1, "get_weather") /\ Lower(req[1].city) = NewYorkKey)
        => /\ ret[1] = [status |-> "success", report |-> WeatherReport]
           /\ ~Contains(ret[1].report, req[1].city)

\* C1 (amended): for every c with c.lower() = "new york", get_weather(c) is
\* the success dict whose report is the literal sentence, the same for all
\* such c; the report contains the caller's spelling only when that
\* spelling is "New York", the literal's own.
C1_WeatherSuccess ==
    (Returned(1, "get_weather") /\ Lower(req[1].city) = NewYorkKey)
        => /\ ret[1] = [status |-> "success", report |-> WeatherReport]
           /\ Contains(ret[1].report, req[1].city) <=> req[1].city = NewYork

C1_Witness ==
    /\ Returned(1, "get_weather")
    /\ req[1].city = Spelling(LetterPositions)
    /\ ret[1].status = "success"

\* C2: for every c with c.lower() # "new york" (the empty string and
\* padded spellings included), get_weather(c) is the error dict whose
\* error_message is "Weather information for '" + c + "' is not available."
\* with c as passed, neither lower-cased nor trimmed.
C2_WeatherError ==
    (Returned(1, "get_weather") /\ Lower(req[1].city) # NewYorkKey)
        => ret[1] =
              [status |-> "error",
               error_message |->
                   WeatherErrorHead \o req[1].city \o WeatherErrorTail]

C2_Witness ==
    /\ Returned(1, "get_weather")
    /\ req[1].city = NewYork \o <<" ">>
    /\ ret[1].status = "error"

\* C3 (as stated): for every c with c.lower() # "new york", get_weather(c)
\* is an error whose message contains c verbatim and does not contain the
\* word "sunny", also when c itself contains "sunny".
C3_Original ==
    (Returned(1, "get_weather") /\ Lower(req[1].city) # NewYorkKey)
        => /\ ret[1].status = "error"
           /\ Contains(ret[1].error_message, req[1].city)
           /\ ~Contains(ret[1].error_message, Sunny)

\* C3 (amended): for every c with c.lower() # "new york", get_weather(c) is
\* an error whose message contains c verbatim, and the message contains
\* "sunny" exactly when c does.
C3_ErrorNotSunny ==
    (Returned(1, "get_weather") /\ Lower(req[1].city) # NewYorkKey)
        => /\ ret[1].status = "error"
           /\ Contains(ret[1].error_message, req[1].city)
           /\ Contains(ret[1].error_message, Sunny)
                 <=> Contains(req[1].city, Sunny)

C3_Witness ==
    /\ Returned(1, "get_weather")
    /\ req[1].city = ItIsSunny
    /\ ret[1].status = "error"

\* C4: for every c with c.lower() # "new york", get_current_time(c) is the
\* error dict whose error_message is "Sorry, I don't have timezone
\* information for " + c + "." with c as passed, and the call has consulted
\* neither the system clock nor the timezone database.
C4_TimeError ==
    (Returned(1, "get_current_time") /\ Lower(req[1].city) # NewYorkKey)
        => /\ ret[1] =
                [status |-> "error",
                 error_message |-> TimeErrorHead \o req[1].city \o <<".">>]
           /\ reads[1] = {}

C4_Witness ==
    /\ Returned(1, "get_current_time")
    /\ req[1].city = <<" ">> \o NewYork
    /\ ret[1].status = "error"
    /\ ~tzAvailable

\* C6: every result of get_weather or get_current_time has exactly one
\* variant: status "success" with a report and no error_message, or status
\* "error" with an error_message and no report.
C6_OneVariant ==
    pc[1] = "returned"
        => \/ /\ ret[1].status = "success"
              /\ DOMAIN ret[1] = {"status", "report"}
           \/ /\ ret[1].status = "error"
              /\ DOMAIN ret[1] = {"status", "error_message"}

C6_Witness ==
    /\ Returned(1, "get_current_time")
    /\ req[1].city = Tokyo
    /\ DOMAIN ret[1] = {"status", "error_message"}

\* C10: the two tools accept the same cities: with the timezone database
\* available, get_weather(c) succeeds if and only if get_current_time(c)
\* does, both testing c.lower() = "new york" and nothing else.
C10_SameCities ==
    /\ Returned(1, "get_weather")
          => (ret[1].status = "success" <=> time_matches(req[1].city))
    /\ (Returned(1, "get_current_time") /\ tzAvailable)
          => (ret[1].status = "success" <=> weather_matches(req[1].city))
    /\ (req[1].fn = "get_current_time" /\ tzAvailable) => pc[1] # "raised"

C10_Witness ==
    /\ Returned(1, "get_current_time")
    /\ tzAvailable
    /\ req[1].city = NewYorkKey \o <<" ">>
    /\ ret[1].status = "error"

\* C5: for every c with c.lower() = "new york" and every instant,
\* get_current_time(c) is the success dict whose report is "The current
\* time in " + c + " is " + T, with c as the caller spelled it and T the
\* America/New_York civil time of the instant as YYYY-MM-DD HH:MM:SS, a
\* space, the zone abbreviation and the signed 4-digit offset: EDT-0400
\* when daylight saving is in effect at the instant, EST-0500 otherwise.
C5_TimeReport ==
    (Returned(1, "get_current_time") /\ Lower(req[1].city) = NewYorkKey)
        => /\ ret[1].status = "success"
           /\ DOMAIN ret[1] = {"status", "report"}
           /\ LET c == req[1].city
                  r == ret[1].report
                  T == StampOf(r, c)
                  zone == SubSeq(T, 21, 28)
              IN  /\ Len(r) = Len(c) + 52
                  /\ SubSeq(r, 1, 20) = TimeReportHead
                  /\ SubSeq(r, 21, Len(c) + 20) = c
                  /\ SubSeq(r, Len(c) + 21, Len(c) + 24) = IsWord
                  /\ WellFormedStamp(T)
                  /\ zone = IF KnownDST(readAt[1])
                            THEN <<"E", "D", "T", "-", "0", "4", "0", "0">>
                            ELSE <<"E", "S", "T", "-", "0", "5", "0", "0">>
                  /\ StampCivilSeconds(T)
                        + (IF KnownDST(readAt[1]) THEN 4 ELSE 5) * 3600
                        = readAt[1]

C5_Witness ==
    /\ Returned(1, "get_current_time")
    /\ req[1].city = Spelling(LetterPositions)
    /\ readAt[1] = 1699164000 - 1
    /\ SubSeq(StampOf(ret[1].report, req[1].city), 12, 23) =
          <<"0", "1", ":", "5", "9", ":", "5", "9", " ", "E", "D", "T">>

\* The text of a time report outside its date-and-time digits.
OutsideStamp(report, c) ==
    <<SubSeq(report, 1, Len(c) + 24), SubSeq(StampOf(report, c), 20, 28)>>

\* C7 (as stated): of two successive calls get_current_time("New York"),
\* the later report's timestamp is never earlier than the first's, and the
\* text outside the date-and-time digits is the same in both, for every
\* pair of instants (across a daylight-saving transition or a backward
\* adjustment of the clock too).
C7_Original ==
    (/\ prev.valid
     /\ prev.city = NewYork
     /\ Returned(1, "get_current_time")
     /\ req[1].city = NewYork)
        => /\ ret[1].status = "success"
           /\ NotEarlier(StampFields(StampOf(ret[1].report, NewYork)),
                         StampFields(StampOf(prev.report, NewYork)))
           /\ OutsideStamp(ret[1].report, NewYork) =
                 OutsideStamp(prev.report, NewYork)

\* C7 (amended): of two successive calls get_current_time("New York") of
\* which the second reads the clock at an instant not before the first's
\* and in the same daylight-saving state, the later report's timestamp is
\* never earlier than the first's, and the text outside the date-and-time
\* digits is the same in both.
C7_SameOffsetMonotone ==
    (/\ prev.valid
     /\ prev.city = NewYork
     /\ Returned(1, "get_current_time")
     /\ req[1].city = NewYork
     /\ prev.at <= readAt[1]
     /\ KnownDST(prev.at) = KnownDST(readAt[1]))
        => /\ ret[1].status = "success"
           /\ NotEarlier(StampFields(StampOf(ret[1].report, NewYork)),
                         StampFields(StampOf(prev.report, NewYork)))
           /\ OutsideStamp(ret[1].report, NewYork) =
                 OutsideStamp(prev.report, NewYork)

C7_Witness ==
    /\ prev.valid
    /\ prev.city = NewYork
    /\ Returned(1, "get_current_time")
    /\ req[1].city = NewYork
    /\ readAt[1] = prev.at + 1
    /\ KnownDST(prev.at) = KnownDST(readAt[1])
    /\ ret[1].report # prev.report

\* C8: unsupported input is never raised as a failure.  get_weather never
\* aborts; get_current_time aborts only when the input matches "new york"
\* case-insensitively and the America/New_York entry is unavailable, and
\* then returns no result at all; with the entry unavailable a
\* non-matching input still gets the normal error result.
C8_OnlyMissingTzdataRaises ==
    /\ pc[1] = "raised"
          => /\ req[1].fn = "get_current_time"
             /\ Lower(req[1].city) = NewYorkKey
             /\ ~tzAvailable
             /\ ret[1] = NoResult
    /\ (Returned(1, "get_current_time") /\ ~tzAvailable)
          => /\ Lower(req[1].city) # NewYorkKey
             /\ ret[1] =
                   [status |-> "error",
                    error_message |->
                        TimeErrorHead \o req[1].city \o <<".">>]
    /\ Returned(1, "get_weather") => ret[1].status \in {"success", "error"}

C8_Witness ==
    /\ pc[1] = "raised"
    /\ req[1].city = NewYork
    /\ ret[1] = NoResult

\* What a call returns when nothing else runs: get_weather(c) alone, and
\* get_current_time(c) reading the clock at instant t.
AloneResult(r, t) ==
    IF r.fn = "get_weather" THEN get_weather(r.city)
    ELSE IF time_matches(r.city) THEN time_report(r.city, now_in_tz(t))
    ELSE time_error(r.city)

\* C9: calls are independent.  Under any interleaving of calls by several
\* callers, after any earlier calls, get_weather(c) returns what it
\* returns alone and get_current_time(c) returns what c and the instant at
\* which it read the clock determine; a call that raises is a
\* get_current_time call of its own matching city; two get_weather calls
\* with the same city return identical results.
C9_Independent ==
    /\ \A p \in Callers :
          /\ pc[p] = "returned" => ret[p] = AloneResult(req[p], readAt[p])
          /\ pc[p] = "raised"
                => /\ req[p].fn = "get_current_time"
                   /\ Lower(req[p].city) = NewYorkKey
                   /\ ~tzAvailable
    /\ \A p, q \in Callers :
          (/\ Returned(p, "get_weather")
           /\ Returned(q, "get_weather")
           /\ req[p].city = req[q].city)
              => ret[p] = ret[q]

C9_Witness ==
    /\ Returned(1, "get_current_time")
    /\ Returned(2, "get_weather")
    /\ req[1].city = Spelling(LetterPositions)
    /\ req[2].city = Beijing
    /\ readAt[1] # clock
    /\ ret[1].status = "success"
    /\ ret[2].status = "error"

=============================================================================
